---- MODULE Spec2Model ----
(***************************************************************************)
(* Journey aggregation and live-presentation engine of main.go:            *)
(* the journey builder (fetchJourneys), novelty detection and delay        *)
(* history (App.refresh), the key bindings (App.setupKeyBindings) and the  *)
(* background animation / refresh-timer loop (App.startAnimationLoop).     *)
(***************************************************************************)
EXTENDS Integers, Sequences, FiniteSets, TLC

(***************************************************************************)
(* Bounds of the model (not program constants).                            *)
(***************************************************************************)
\* total number of calls of App.refresh in one behaviour
MaxRefresh == 2
\* the frame counter animFrame is exact up to MaxFrame and saturates there
MaxFrame == 51

(***************************************************************************)
(* Program constants.                                                      *)
(***************************************************************************)
SplashFrames == 20
NewHighlightFrames == 30
StatusMsgFrames == 30
IsNewClearFrame == 50
DelayHistoryCap == 20
SecondsPerMinute == 60

(***************************************************************************)
(* Time.  An instant counts minutes from Go's zero time.Time; a time.Time  *)
(* is an instant together with the zone offset it was parsed with.  A raw  *)
(* timestamp string is "" (k = "empty"), text that is not RFC 3339         *)
(* (k = "bad"), a local time with a trailing Z (k = "z") or a local time   *)
(* with a numeric offset (k = "off").                                      *)
(***************************************************************************)
ZeroTime == [inst |-> 0, off |-> 0]

EmptyTs == [k |-> "empty", local |-> 0, off |-> 0]
BadTs == [k |-> "bad", local |-> 0, off |-> 0]
ZTs(l) == [k |-> "z", local |-> l, off |-> 0]
OffTs(l, o) == [k |-> "off", local |-> l, off |-> o]

\* parseTime: "" is an error; Z is rewritten to +00:00; then RFC 3339
parseTime(isoString) ==
    IF isoString.k = "empty" THEN [err |-> TRUE, t |-> ZeroTime]
    ELSE IF isoString.k = "bad" THEN [err |-> TRUE, t |-> ZeroTime]
    ELSE IF isoString.k = "z" THEN [err |-> FALSE, t |-> [inst |-> isoString.local, off |-> 0]]
    ELSE [err |-> FALSE,
          t |-> [inst |-> isoString.local - isoString.off, off |-> isoString.off]]

IsZero(t) == t.inst = 0
TimeAfter(t, u) == t.inst > u.inst
TimeBefore(t, u) == t.inst < u.inst
TimeEqual(t, u) == t.inst = u.inst
TimeSub(t, u) == t.inst - u.inst
\* t.Format(time.RFC3339): the local time and the offset of t's zone
FormatRFC3339(t) == <<t.inst + t.off, t.off>>

(***************************************************************************)
(* fetchJourneys, lines 404-543: the journey builder.                      *)
(***************************************************************************)
\* the state of the walk over one raw journey's legs (lines 411-413)
LegWalkInit == [legs |-> <<>>, totalWait |-> 0, prevArrival |-> ZeroTime]

\* an iteration in which a transfer or walk leaves the previous arrival alone
LegStepNoGap(al, st) ==
    IF ~al.hasLine THEN st
    ELSE IF parseTime(al.departure).err THEN st
    ELSE IF parseTime(al.arrival).err THEN st
    ELSE LET dep == parseTime(al.departure).t
             arr == parseTime(al.arrival).t
             wait == IF ~IsZero(st.prevArrival) /\ TimeAfter(dep, st.prevArrival)
                     THEN TimeSub(dep, st.prevArrival)
                     ELSE 0
             leg == [Line |-> al.line,
                     Product |-> al.product,
                     Departure |-> dep,
                     Arrival |-> arr,
                     WaitBefore |-> wait,
                     DepDelay |-> IF al.hasDepartureDelay THEN al.departureDelay ELSE 0]
         IN  [legs |-> Append(st.legs, leg),
              totalWait |-> st.totalWait + wait,
              prevArrival |-> arr]

\* an iteration that keeps the last wait in place of the sum
LegStepLastWait(al, st) ==
    IF ~al.hasLine
    THEN IF ~parseTime(al.arrival).err
         THEN [st EXCEPT !.prevArrival = parseTime(al.arrival).t]
         ELSE st
    ELSE IF parseTime(al.departure).err THEN st
    ELSE IF parseTime(al.arrival).err THEN st
    ELSE LET dep == parseTime(al.departure).t
             arr == parseTime(al.arrival).t
             wait == IF ~IsZero(st.prevArrival) /\ TimeAfter(dep, st.prevArrival)
                     THEN TimeSub(dep, st.prevArrival)
                     ELSE 0
             leg == [Line |-> al.line,
                     Product |-> al.product,
                     Departure |-> dep,
                     Arrival |-> arr,
                     WaitBefore |-> wait,
                     DepDelay |-> IF al.hasDepartureDelay THEN al.departureDelay ELSE 0]
         IN  [legs |-> Append(st.legs, leg),
              totalWait |-> wait,
              prevArrival |-> arr]

\* one iteration of the loop over aj.Legs (lines 415-496)
LegStep(al, st) ==
    IF ~al.hasLine
    THEN IF ~parseTime(al.arrival).err
         THEN [st EXCEPT !.prevArrival = parseTime(al.arrival).t]
         ELSE st
    ELSE IF parseTime(al.departure).err THEN st
    ELSE IF parseTime(al.arrival).err THEN st
    ELSE LET dep == parseTime(al.departure).t
             arr == parseTime(al.arrival).t
             wait == IF ~IsZero(st.prevArrival) /\ TimeAfter(dep, st.prevArrival)
                     THEN TimeSub(dep, st.prevArrival)
                     ELSE 0
             leg == [Line |-> al.line,
                     Product |-> al.product,
                     Departure |-> dep,
                     Arrival |-> arr,
                     WaitBefore |-> wait,
                     DepDelay |-> IF al.hasDepartureDelay THEN al.departureDelay ELSE 0]
         IN  [legs |-> Append(st.legs, leg),
              totalWait |-> st.totalWait + wait,
              prevArrival |-> arr]

RECURSIVE WalkLegs(_, _)
WalkLegs(als, st) ==
    IF als = <<>> THEN st ELSE WalkLegs(Tail(als), LegStep(Head(als), st))

\* filters under which a product switched on removes the journey
FilterSkipsEnabled(legs, filters) ==
    /\ DOMAIN filters # {}
    /\ \E i \in 1..Len(legs) :
          /\ legs[i].Product \in DOMAIN filters
          /\ filters[legs[i].Product]

\* filters under which a product the map does not name is switched off
FilterSkipsAbsent(legs, filters) ==
    /\ DOMAIN filters # {}
    /\ \E i \in 1..Len(legs) :
          \/ legs[i].Product \notin DOMAIN filters
          \/ ~filters[legs[i].Product]

\* lines 502-514: filters is a function from some products to BOOLEAN
FilterSkips(legs, filters) ==
    /\ DOMAIN filters # {}
    /\ \E i \in 1..Len(legs) :
          /\ legs[i].Product \in DOMAIN filters
          /\ ~filters[legs[i].Product]

\* a builder that lets a journey without legs through
BuildJourneyKeepsEmpty(aj, filters) ==
    IF Len(aj) = 0 THEN <<>>
    ELSE LET st == WalkLegs(aj, LegWalkInit)
             legs == st.legs
         IN  IF parseTime(aj[1].departure).err THEN <<>>
             ELSE IF Len(legs) = 0
             THEN << [LeaveAt |-> parseTime(aj[1].departure).t,
                      ArriveAt |-> st.prevArrival,
                      Duration |-> TimeSub(st.prevArrival, parseTime(aj[1].departure).t),
                      TotalWait |-> st.totalWait,
                      Legs |-> legs,
                      IsNew |-> TRUE] >>
             ELSE IF FilterSkips(legs, filters) THEN <<>>
             ELSE LET journeyStart == parseTime(aj[1].departure).t
                      lastArr == legs[Len(legs)].Arrival
                  IN  IF IsZero(journeyStart) \/ IsZero(lastArr) THEN <<>>
                      ELSE << [LeaveAt |-> journeyStart,
                               ArriveAt |-> lastArr,
                               Duration |-> TimeSub(lastArr, journeyStart),
                               TotalWait |-> st.totalWait,
                               Legs |-> legs,
                               IsNew |-> TRUE] >>

\* a builder that starts the journey at its first built leg
BuildJourneyFirstBuilt(aj, filters) ==
    IF Len(aj) = 0 THEN <<>>
    ELSE LET st == WalkLegs(aj, LegWalkInit)
             legs == st.legs
         IN  IF Len(legs) = 0 THEN <<>>
             ELSE IF FilterSkips(legs, filters) THEN <<>>
             ELSE IF parseTime(aj[1].departure).err THEN <<>>
             ELSE LET journeyStart == legs[1].Departure
                      lastArr == legs[Len(legs)].Arrival
                  IN  IF IsZero(journeyStart) \/ IsZero(lastArr) THEN <<>>
                      ELSE << [LeaveAt |-> journeyStart,
                               ArriveAt |-> lastArr,
                               Duration |-> TimeSub(lastArr, journeyStart),
                               TotalWait |-> st.totalWait,
                               Legs |-> legs,
                               IsNew |-> TRUE] >>

\* the body of the loop over apiResp.Journeys (lines 406-534):
\* the sequence of zero or one Journey that one raw journey contributes
BuildJourney(aj, filters) ==
    IF Len(aj) = 0 THEN <<>>
    ELSE LET st == WalkLegs(aj, LegWalkInit)
             legs == st.legs
         IN  IF Len(legs) = 0 THEN <<>>
             ELSE IF FilterSkips(legs, filters) THEN <<>>
             ELSE IF parseTime(aj[1].departure).err THEN <<>>
             ELSE LET journeyStart == parseTime(aj[1].departure).t
                      lastArr == legs[Len(legs)].Arrival
                  IN  IF IsZero(journeyStart) \/ IsZero(lastArr) THEN <<>>
                      ELSE << [LeaveAt |-> journeyStart,
                               ArriveAt |-> lastArr,
                               Duration |-> TimeSub(lastArr, journeyStart),
                               TotalWait |-> st.totalWait,
                               Legs |-> legs,
                               IsNew |-> TRUE] >>

RECURSIVE BuildAll(_, _)
BuildAll(ajs, filters) ==
    IF ajs = <<>> THEN <<>>
    ELSE BuildJourney(Head(ajs), filters) \o BuildAll(Tail(ajs), filters)

\* a comparison that looks at the departure alone
JourneyLessNoTie(a, b) == TimeBefore(a.LeaveAt, b.LeaveAt)

\* the comparison handed to sort.Slice (lines 536-541)
JourneyLess(a, b) ==
    IF TimeEqual(a.LeaveAt, b.LeaveAt)
    THEN a.TotalWait < b.TotalWait
    ELSE TimeBefore(a.LeaveAt, b.LeaveAt)

\* sort.Slice on a short slice is an insertion sort driven by less
RECURSIVE InsertSorted(_, _)
InsertSorted(sorted, j) ==
    IF sorted = <<>> THEN <<j>>
    ELSE IF JourneyLess(j, sorted[Len(sorted)])
         THEN Append(InsertSorted(SubSeq(sorted, 1, Len(sorted) - 1), j),
                     sorted[Len(sorted)])
         ELSE Append(sorted, j)

RECURSIVE SortJourneys(_)
SortJourneys(js) ==
    IF js = <<>> THEN <<>>
    ELSE InsertSorted(SortJourneys(SubSeq(js, 1, Len(js) - 1)), js[Len(js)])

\* fetchJourneys: resp is the outcome of the HTTP exchange (lines 387-402),
\* an error or the decoded list of raw journeys
fetchJourneys(resp, filters) ==
    IF resp.err THEN [err |-> TRUE, journeys |-> <<>>]
    ELSE [err |-> FALSE, journeys |-> SortJourneys(BuildAll(resp.journeys, filters))]

(***************************************************************************)
(* The data source.  RawLeg is one APILeg; a leg without a line is a       *)
(* transfer or walk.  Batches are the responses the journeys endpoint      *)
(* gives in this model.                                                    *)
(***************************************************************************)
RawLeg(line, product, dep, arr, hasDelay, delay) ==
    [hasLine |-> TRUE, line |-> line, product |-> product,
     departure |-> dep, arrival |-> arr,
     hasDepartureDelay |-> hasDelay, departureDelay |-> delay]

RawGap(dep, arr) ==
    [hasLine |-> FALSE, line |-> "", product |-> "",
     departure |-> dep, arrival |-> arr,
     hasDepartureDelay |-> FALSE, departureDelay |-> 0]

\* S3 at 2 (two minutes late) listed before U8 at 1 (on time)
BatchA ==
    << << RawLeg("S3", "suburban", ZTs(2), ZTs(4), TRUE, 120) >>,
       << RawLeg("U8", "subway", ZTs(1), ZTs(3), FALSE, 0) >> >>

\* the same S3 again, now three minutes late, and a tram at 3 whose delay is
\* reported as 0, with a change to a U8 that leaves a minute early
BatchB ==
    << << RawLeg("S3", "suburban", ZTs(2), ZTs(4), TRUE, 180) >>,
       << RawLeg("M10", "tram", OffTs(4, 1), OffTs(6, 1), TRUE, 0),
          RawLeg("U8", "subway", ZTs(6), ZTs(7), TRUE, -60) >> >>

Batches == {BatchA, BatchB}

\* what one HTTP exchange can give: an error or a decoded batch
Responses ==
    {[err |-> TRUE, journeys |-> <<>>]}
        \cup {[err |-> FALSE, journeys |-> b] : b \in Batches}

NoFilters == <<>>

(***************************************************************************)
(* App: the fields of the application state, and the goroutines.           *)
(* a.routeAnimFrame is left out: the program writes it (lines 732, 738,    *)
(* 751, 757, 1295) and reads it nowhere.                                   *)
(***************************************************************************)
VARIABLES
    journeys,        \* a.journeys
    prevJourneyIDs,  \* a.prevJourneyIDs
    selectedIdx,     \* a.selectedIdx
    isLoading,       \* a.isLoading
    refreshPulse,    \* a.refreshPulse
    newHighlight,    \* a.newHighlight
    delayHistory,    \* a.delayHistory: line -> Delays
    statusMsgFrame,  \* a.statusMsgFrame
    animFrame,       \* a.animFrame
    showSplash,      \* a.showSplash
    splashFrame,     \* a.splashFrame
    page,            \* the page a.pages shows: "splash" or "main"
    stopChanClosed,  \* close(a.stopChan) has happened
    appRunning,      \* a.app.Run() has not returned (the process is alive)
    bgRunning,       \* the goroutine of startAnimationLoop has not returned
    fetching,        \* goroutines of refresh that are inside fetchJourneys
    updates,         \* functions queued by QueueUpdateDraw, oldest first
    pulseSleepers,   \* goroutines of refresh sleeping before refreshPulse = false
    refreshCalls,    \* calls of refresh so far (for MaxRefresh)
    takenAfterStop,  \* timer events the loop took after close(stopChan)
    inFlight,        \* the refreshes whose fetch has not returned, by their number
    publishedSeq,    \* the number of the refresh whose completion was applied last
    apiJourneys,     \* fetchJourneys on its own: the decoded apiResp.Journeys
    filters,         \* fetchJourneys on its own: its filters argument
    built,           \* fetchJourneys on its own: what it returned
    uiPc,            \* the statement the event loop's goroutine is to run next
    delayHistoryMu,  \* a.delayHistoryMu: "free", "w" (Lock held) or "r" (RLock held)
    tickHeld,        \* the newHighlight a tick has loaded and not yet stored, or -1
    rendered,        \* what renderHeader and renderList read when they last ran
    remarks,         \* parseOccupancy on its own: its remarks argument
    occupancy        \* parseOccupancy on its own: what it returned

vars ==
    <<journeys, prevJourneyIDs, selectedIdx, isLoading, refreshPulse, newHighlight,
      delayHistory, statusMsgFrame, animFrame, showSplash, splashFrame, page,
      stopChanClosed, appRunning, bgRunning, fetching, updates, pulseSleepers,
      refreshCalls, takenAfterStop, inFlight, publishedSeq, apiJourneys, filters,
      built, uiPc, delayHistoryMu, tickHeld, rendered, remarks, occupancy>>

\* the variables of fetchJourneys run on its own
buildVars == <<apiJourneys, filters, built>>

\* the variables that follow the goroutines inside a handler
stepVars == <<uiPc, delayHistoryMu, tickHeld, rendered>>

\* the variables of parseOccupancy run on its own
occVars == <<remarks, occupancy>>

\* no goroutine stands inside a handler, and nothing was rendered yet
StepIdle ==
    /\ uiPc = [at |-> "idle", leg |-> 0]
    /\ delayHistoryMu = "free"
    /\ tickHeld = -1
    /\ rendered = [during |-> "none", length |-> 0, selectedIdx |-> 0,
                   isLoading |-> FALSE]

\* parseOccupancy has not run
OccIdle ==
    /\ remarks = <<>>
    /\ occupancy = [done |-> FALSE, level |-> ""]

\* NewApp (lines 638-657) and Run (lines 1340-1344)
AppInit ==
    /\ journeys = <<>>
    /\ prevJourneyIDs = {}
    /\ selectedIdx = 0
    /\ isLoading = TRUE
    /\ refreshPulse = FALSE
    /\ newHighlight = 0
    /\ delayHistory = <<>>
    /\ statusMsgFrame = 0
    /\ animFrame = 0
    /\ showSplash = TRUE
    /\ splashFrame = SplashFrames
    /\ page = "splash"
    /\ stopChanClosed = FALSE
    /\ appRunning = TRUE
    /\ bgRunning = TRUE
    /\ fetching = 0
    /\ updates = <<>>
    /\ pulseSleepers = 0
    /\ refreshCalls = 0
    /\ takenAfterStop = {}
    /\ inFlight = {}
    /\ publishedSeq = 0
    /\ StepIdle

Init ==
    /\ AppInit
    /\ OccIdle
    /\ apiJourneys = <<>>
    /\ filters = <<>>
    /\ built = [done |-> FALSE, journeys |-> <<>>]

(***************************************************************************)
(* App.refresh, lines 1217-1279.                                           *)
(***************************************************************************)
\* line 1232: the identity of a journey
JourneyID(j) == <<FormatRFC3339(j.LeaveAt), j.Legs[1].Line>>

\* a detector that flags every journey
IsNewFlagAlways(id, prevIDs) == TRUE

\* lines 1234-1239: the flag a journey gets
IsNewFlag(id, prevIDs) == id \notin prevIDs

\* lines 1231-1240: the loop's effect on the fetched journeys
MarkNew(js, prevIDs) ==
    [i \in 1..Len(js) |-> [js[i] EXCEPT !.IsNew = IsNewFlag(JourneyID(js[i]), prevIDs)]]

\* an identity set that is merged into the earlier one
NewIDsMerged(js, prevIDs) == prevIDs \cup {JourneyID(js[i]) : i \in 1..Len(js)}

\* lines 1229-1241: the identity set stored for the next cycle
NewIDs(js, prevIDs) == {JourneyID(js[i]) : i \in 1..Len(js)}

\* a detector that reports a new journey for every batch that is not empty
HasNewAny(js, prevIDs) == Len(js) > 0

\* lines 1230-1236
HasNew(js, prevIDs) == \E i \in 1..Len(js) : IsNewFlag(JourneyID(js[i]), prevIDs)

\* lines 1243-1245
ArmHighlight(js, prevIDs, cur) ==
    IF HasNew(js, prevIDs) THEN NewHighlightFrames ELSE cur

\* a history that is never cut
RecordLegNoCap(hist, leg) ==
    IF leg.DepDelay > 0
    THEN LET cur == IF leg.Line \in DOMAIN hist THEN hist[leg.Line] ELSE <<>>
             app == Append(cur, leg.DepDelay \div SecondsPerMinute)
         IN  [l \in DOMAIN hist \cup {leg.Line} |-> IF l = leg.Line THEN app ELSE hist[l]]
    ELSE hist

\* a history that takes a sample from every leg that is not early
RecordLegNotEarly(hist, leg) ==
    IF leg.DepDelay >= 0
    THEN LET cur == IF leg.Line \in DOMAIN hist THEN hist[leg.Line] ELSE <<>>
             app == Append(cur, leg.DepDelay \div SecondsPerMinute)
             kept == IF Len(app) > DelayHistoryCap
                     THEN SubSeq(app, Len(app) - DelayHistoryCap + 1, Len(app))
                     ELSE app
         IN  [l \in DOMAIN hist \cup {leg.Line} |-> IF l = leg.Line THEN kept ELSE hist[l]]
    ELSE hist

\* lines 1251-1261: one leg's sample
RecordLeg(hist, leg) ==
    IF leg.DepDelay > 0
    THEN LET cur == IF leg.Line \in DOMAIN hist THEN hist[leg.Line] ELSE <<>>
             app == Append(cur, leg.DepDelay \div SecondsPerMinute)
             kept == IF Len(app) > DelayHistoryCap
                     THEN SubSeq(app, Len(app) - DelayHistoryCap + 1, Len(app))
                     ELSE app
         IN  [l \in DOMAIN hist \cup {leg.Line} |-> IF l = leg.Line THEN kept ELSE hist[l]]
    ELSE hist

RECURSIVE RecordLegs(_, _)
RecordLegs(hist, legs) ==
    IF legs = <<>> THEN hist ELSE RecordLegs(RecordLeg(hist, Head(legs)), Tail(legs))

\* lines 1249-1263
RECURSIVE RecordJourneys(_, _)
RecordJourneys(hist, js) ==
    IF js = <<>> THEN hist
    ELSE RecordJourneys(RecordLegs(hist, Head(js).Legs), Tail(js))

\* a loading flag that is cleared on success only
LoadingAfterApplyErr(err) == err

\* line 1270: the loading flag after the queued function, whatever err is
LoadingAfterApply(err) == FALSE

\* a failure that keeps the published journeys
JourneysOnErrorKept(old) == old

\* lines 1225-1226: the journeys published when the fetch failed
JourneysOnError(old) == <<>>

\* lines 1217-1221: the caller's part of refresh
RefreshStart ==
    /\ isLoading' = TRUE
    /\ refreshPulse' = TRUE
    /\ fetching' = fetching + 1
    /\ refreshCalls' = refreshCalls + 1
    /\ inFlight' = inFlight \cup {refreshCalls + 1}

\* the calls of refresh are bounded by MaxRefresh, the call that ends the
\* splash included
RefreshAllowed == refreshCalls + (IF page = "splash" THEN 1 ELSE 0) < MaxRefresh

\* lines 1222-1224: fetchJourneys returns in a goroutine of refresh, which
\* queues the function that applies the result
FetchReturns ==
    /\ appRunning
    /\ fetching > 0
    /\ \E resp \in Responses, n \in inFlight :
          /\ updates' = Append(updates,
                               [kind |-> "refresh",
                                res |-> fetchJourneys(resp, NoFilters),
                                queuedAfterStop |-> stopChanClosed,
                                seq |-> n])
          /\ inFlight' = inFlight \ {n}
    /\ fetching' = fetching - 1
    /\ UNCHANGED <<journeys, prevJourneyIDs, selectedIdx, isLoading,
                   refreshPulse, newHighlight, delayHistory, statusMsgFrame,
                   animFrame, showSplash, splashFrame, page, stopChanClosed,
                   appRunning, bgRunning, pulseSleepers, refreshCalls,
                   takenAfterStop, buildVars,
                   publishedSeq, stepVars, occVars>>

\* lines 1224-1277: the event loop runs the queued function of a refresh
ApplyRefresh ==
    /\ appRunning
    /\ updates # <<>>
    /\ Head(updates).kind = "refresh"
    /\ LET res == Head(updates).res IN
         IF res.err
         THEN /\ journeys' = JourneysOnError(journeys)
              /\ UNCHANGED <<prevJourneyIDs, newHighlight, delayHistory>>
         ELSE /\ journeys' = MarkNew(res.journeys, prevJourneyIDs)
              /\ prevJourneyIDs' = NewIDs(res.journeys, prevJourneyIDs)
              /\ newHighlight' = ArmHighlight(res.journeys, prevJourneyIDs, newHighlight)
              /\ delayHistory' = RecordJourneys(delayHistory, res.journeys)
    /\ selectedIdx' = 0
    /\ isLoading' = LoadingAfterApply(Head(updates).res.err)
    /\ pulseSleepers' = pulseSleepers + 1
    /\ publishedSeq' = Head(updates).seq
    /\ updates' = Tail(updates)
    /\ UNCHANGED <<refreshPulse, statusMsgFrame, animFrame, showSplash,
                   splashFrame, page, stopChanClosed, appRunning, bgRunning,
                   fetching, refreshCalls, takenAfterStop, buildVars,
                   inFlight, stepVars, occVars>>

\* lines 1273-1276: a sleeping goroutine wakes and clears the pulse
PulseEnds ==
    /\ appRunning
    /\ pulseSleepers > 0
    /\ refreshPulse' = FALSE
    /\ pulseSleepers' = pulseSleepers - 1
    /\ UNCHANGED <<journeys, prevJourneyIDs, selectedIdx, isLoading,
                   newHighlight, delayHistory, statusMsgFrame, animFrame,
                   showSplash, splashFrame, page, stopChanClosed, appRunning,
                   bgRunning, fetching, updates, refreshCalls,
                   takenAfterStop, buildVars,
                   inFlight, publishedSeq, stepVars, occVars>>

(***************************************************************************)
(* App.setupKeyBindings, lines 727-784: the keys of the journey list.  The *)
(* list has the focus once the splash page is left; after a.app.Stop() the *)
(* screen delivers no further key.                                         *)
(***************************************************************************)
KeysEnabled == appRunning /\ ~stopChanClosed /\ page = "main"

\* lines 729-734 and 748-753: Up and k
KeyUp ==
    /\ KeysEnabled
    /\ IF selectedIdx > 0
       THEN selectedIdx' = selectedIdx - 1
       ELSE UNCHANGED selectedIdx
    /\ UNCHANGED <<journeys, prevJourneyIDs, isLoading, refreshPulse,
                   newHighlight, delayHistory, statusMsgFrame, animFrame,
                   showSplash, splashFrame, page, stopChanClosed, appRunning,
                   bgRunning, fetching, updates, pulseSleepers, refreshCalls,
                   takenAfterStop, buildVars,
                   inFlight, publishedSeq, stepVars, occVars>>

\* a Down that may step onto the place after the last journey
KeyDownPastEnd ==
    /\ KeysEnabled
    /\ IF selectedIdx < Len(journeys)
       THEN selectedIdx' = selectedIdx + 1
       ELSE UNCHANGED selectedIdx
    /\ UNCHANGED <<journeys, prevJourneyIDs, isLoading, refreshPulse,
                   newHighlight, delayHistory, statusMsgFrame, animFrame,
                   showSplash, splashFrame, page, stopChanClosed, appRunning,
                   bgRunning, fetching, updates, pulseSleepers, refreshCalls,
                   takenAfterStop, buildVars,
                   inFlight, publishedSeq, stepVars, occVars>>

\* lines 735-740 and 754-759: Down and j
KeyDown ==
    /\ KeysEnabled
    /\ IF selectedIdx < Len(journeys) - 1
       THEN selectedIdx' = selectedIdx + 1
       ELSE UNCHANGED selectedIdx
    /\ UNCHANGED <<journeys, prevJourneyIDs, isLoading, refreshPulse,
                   newHighlight, delayHistory, statusMsgFrame, animFrame,
                   showSplash, splashFrame, page, stopChanClosed, appRunning,
                   bgRunning, fetching, updates, pulseSleepers, refreshCalls,
                   takenAfterStop, buildVars,
                   inFlight, publishedSeq, stepVars, occVars>>

\* lines 760-762: r
KeyRefresh ==
    /\ KeysEnabled
    /\ RefreshAllowed
    /\ RefreshStart
    /\ UNCHANGED <<journeys, prevJourneyIDs, selectedIdx, newHighlight,
                   delayHistory, statusMsgFrame, animFrame, showSplash,
                   splashFrame, page, stopChanClosed, appRunning, bgRunning,
                   updates, pulseSleepers, takenAfterStop, buildVars,
                   publishedSeq, stepVars, occVars>>

\* lines 777-780: q closes stopChan and asks the event loop to stop
KeyQuit ==
    /\ KeysEnabled
    /\ stopChanClosed' = TRUE
    /\ UNCHANGED <<journeys, prevJourneyIDs, selectedIdx, isLoading,
                   refreshPulse, newHighlight, delayHistory, statusMsgFrame,
                   animFrame, showSplash, splashFrame, page, appRunning,
                   bgRunning, fetching, updates, pulseSleepers, refreshCalls,
                   takenAfterStop, buildVars,
                   inFlight, publishedSeq, stepVars, occVars>>

\* lines 1343 and 1346-1352: after a.app.Stop() the event loop receives the
\* end of the screen's events, Run returns and main returns: the process
\* ends, and every goroutine with it
AppExits ==
    /\ appRunning
    /\ stopChanClosed
    /\ appRunning' = FALSE
    /\ bgRunning' = FALSE
    /\ fetching' = 0
    /\ inFlight' = {}
    /\ updates' = <<>>
    /\ pulseSleepers' = 0
    /\ UNCHANGED <<journeys, prevJourneyIDs, selectedIdx, isLoading,
                   refreshPulse, newHighlight, delayHistory, statusMsgFrame,
                   animFrame, showSplash, splashFrame, page, stopChanClosed,
                   refreshCalls, takenAfterStop, buildVars,
                   publishedSeq, stepVars, occVars>>

(***************************************************************************)
(* App.startAnimationLoop, lines 1281-1338.  select takes any case that is *)
(* ready; once stopChan is closed its case is ready whenever the loop      *)
(* comes back to select, beside a tick that has arrived meanwhile.         *)
(***************************************************************************)
\* a loop that waits for the fetches before it takes a tick
BgMayTakeBlocked(kind) ==
    /\ appRunning
    /\ bgRunning
    /\ fetching = 0
    /\ stopChanClosed => kind \notin takenAfterStop

\* the loop is at select and may take the case of a ticker.  Each ticker's
\* channel holds at most one tick, so once stopChan is closed, and its case
\* is ready at every select, the loop finds at most one tick of each ticker
BgMayTake(kind) ==
    /\ appRunning
    /\ bgRunning
    /\ stopChanClosed => kind \notin takenAfterStop

BgTaken(kind) == IF stopChanClosed THEN takenAfterStop \cup {kind} ELSE takenAfterStop

\* line 1293
NextFrame(f) == IF f < MaxFrame THEN f + 1 ELSE f

\* lines 1312-1320: a countdown after one tick
Countdown(n) == IF n > 0 THEN n - 1 ELSE n

\* lines 1322-1327: the published journeys after the tick that made the
\* frame counter f
ClearIsNew(js, f) ==
    IF f > IsNewClearFrame
    THEN [i \in 1..Len(js) |-> [js[i] EXCEPT !.IsNew = FALSE]]
    ELSE js

\* lines 1292-1310: case <-ticker.C while the splash is shown
SplashTick ==
    /\ BgMayTake("tick")
    /\ showSplash
    /\ animFrame' = NextFrame(animFrame)
    /\ splashFrame' = splashFrame - 1
    /\ IF splashFrame - 1 <= 0
       THEN /\ showSplash' = FALSE
            /\ updates' = Append(updates,
                                 [kind |-> "splash",
                                  res |-> [err |-> FALSE, journeys |-> <<>>],
                                  queuedAfterStop |-> stopChanClosed,
                                  seq |-> 0])
       ELSE UNCHANGED <<showSplash, updates>>
    /\ takenAfterStop' = BgTaken("tick")
    /\ UNCHANGED <<journeys, prevJourneyIDs, selectedIdx, isLoading,
                   refreshPulse, newHighlight, delayHistory, statusMsgFrame,
                   page, stopChanClosed, appRunning, bgRunning, fetching,
                   pulseSleepers, refreshCalls, buildVars,
                   inFlight, publishedSeq, stepVars, occVars>>

\* lines 1303-1307: the event loop runs the function queued by the last
\* splash tick
LeaveSplash ==
    /\ appRunning
    /\ updates # <<>>
    /\ Head(updates).kind = "splash"
    /\ page' = "main"
    /\ RefreshStart
    /\ updates' = Tail(updates)
    /\ UNCHANGED <<journeys, prevJourneyIDs, selectedIdx, newHighlight,
                   delayHistory, statusMsgFrame, animFrame, showSplash,
                   splashFrame, stopChanClosed, appRunning, bgRunning,
                   pulseSleepers, takenAfterStop, buildVars,
                   publishedSeq, stepVars, occVars>>

\* lines 1292-1332: case <-ticker.C after the splash.  The function queued
\* at lines 1329-1332 only paints (renderHeader, renderList).
AnimTick ==
    /\ BgMayTake("tick")
    /\ ~showSplash
    /\ animFrame' = NextFrame(animFrame)
    /\ newHighlight' = Countdown(newHighlight)
    /\ statusMsgFrame' = Countdown(statusMsgFrame)
    /\ journeys' = ClearIsNew(journeys, animFrame + 1)
    /\ takenAfterStop' = BgTaken("tick")
    /\ UNCHANGED <<prevJourneyIDs, selectedIdx, isLoading, refreshPulse,
                   delayHistory, showSplash, splashFrame, page,
                   stopChanClosed, appRunning, bgRunning, fetching, updates,
                   pulseSleepers, refreshCalls, buildVars,
                   inFlight, publishedSeq, stepVars, occVars>>

\* lines 1333-1334: case <-refreshTicker.C.  The refresh ticker's period is
\* 30 s (line 1283) and the splash lasts 20 ticks of 100 ms (lines 648 and
\* 1282), so its first tick comes after the splash.
RefreshTick ==
    /\ BgMayTake("refresh")
    /\ ~showSplash
    /\ RefreshAllowed
    /\ RefreshStart
    /\ takenAfterStop' = BgTaken("refresh")
    /\ UNCHANGED <<journeys, prevJourneyIDs, selectedIdx, newHighlight,
                   delayHistory, statusMsgFrame, animFrame, showSplash,
                   splashFrame, page, stopChanClosed, appRunning, bgRunning,
                   updates, pulseSleepers, buildVars,
                   publishedSeq, stepVars, occVars>>

\* lines 1288-1291: case <-a.stopChan
BgStops ==
    /\ appRunning
    /\ bgRunning
    /\ stopChanClosed
    /\ bgRunning' = FALSE
    /\ UNCHANGED <<journeys, prevJourneyIDs, selectedIdx, isLoading,
                   refreshPulse, newHighlight, delayHistory, statusMsgFrame,
                   animFrame, showSplash, splashFrame, page, stopChanClosed,
                   appRunning, fetching, updates, pulseSleepers,
                   refreshCalls, takenAfterStop, buildVars,
                   inFlight, publishedSeq, stepVars, occVars>>

Next ==
    \/ FetchReturns
    \/ ApplyRefresh
    \/ PulseEnds
    \/ KeyUp
    \/ KeyDown
    \/ KeyRefresh
    \/ KeyQuit
    \/ AppExits
    \/ SplashTick
    \/ LeaveSplash
    \/ AnimTick
    \/ RefreshTick
    \/ BgStops

Spec == Init /\ [][Next]_vars

(***************************************************************************)
(* fetchJourneys on its own: the builder run once on a response and a      *)
(* filters map drawn from the pools below.                                 *)
(***************************************************************************)
\* raw journeys in one response
MaxBatch == 3

\* raw journeys the responses are made of
RawJourneyPool ==
    { \* one leg, leaves at 2
      << RawLeg("S3", "suburban", ZTs(2), ZTs(4), TRUE, 120) >>,
      \* a walk from 2 to 3, then a bus at 5: leaves at 2, waits 2
      << RawGap(ZTs(2), ZTs(3)),
         RawLeg("M41", "bus", ZTs(5), ZTs(6), FALSE, 0) >>,
      \* two legs with a change of 3: leaves at 1
      << RawLeg("U8", "subway", ZTs(1), ZTs(2), FALSE, 0),
         RawLeg("M10", "tram", ZTs(5), ZTs(6), TRUE, 0) >>,
      \* two legs with no wait: leaves at 1
      << RawLeg("S3", "suburban", ZTs(1), ZTs(2), FALSE, 0),
         RawLeg("U8", "subway", ZTs(2), ZTs(3), TRUE, 60) >>,
      \* the only leg's arrival does not parse
      << RawLeg("U8", "subway", ZTs(1), BadTs, FALSE, 0) >>,
      \* local time 3 at offset +1: the instant 2
      << RawLeg("M41", "bus", OffTs(3, 1), OffTs(5, 1), FALSE, 0) >>,
      \* a raw journey without legs
      << >>,
      \* a walk and nothing else
      << RawGap(ZTs(1), ZTs(2)) >>,
      \* the only leg is reported to arrive before it leaves
      << RawLeg("S3", "suburban", ZTs(4), ZTs(3), FALSE, 0) >>,
      \* the first leg's departure does not parse, the second leg is sound
      << RawLeg("U8", "subway", BadTs, ZTs(2), FALSE, 0),
         RawLeg("M10", "tram", ZTs(3), ZTs(4), FALSE, 0) >>,
      \* the first leg's arrival does not parse, the second leg is sound
      << RawLeg("U8", "subway", ZTs(1), BadTs, FALSE, 0),
         RawLeg("M41", "bus", ZTs(3), ZTs(4), FALSE, 0) >>,
      \* the middle leg has no departure, and arrives at 4
      << RawLeg("S3", "suburban", ZTs(1), ZTs(2), FALSE, 0),
         RawLeg("U8", "subway", EmptyTs, ZTs(4), FALSE, 0),
         RawLeg("M10", "tram", ZTs(5), ZTs(6), FALSE, 0) >>,
      \* the last leg's arrival does not parse
      << RawLeg("S3", "suburban", ZTs(1), ZTs(2), FALSE, 0),
         RawLeg("U8", "subway", ZTs(3), BadTs, FALSE, 0) >>,
      \* a walk, a leg, two walks (the second without a sound arrival), a leg
      << RawGap(ZTs(1), ZTs(2)),
         RawLeg("S3", "suburban", ZTs(3), ZTs(4), FALSE, 0),
         RawGap(ZTs(4), ZTs(5)),
         RawGap(ZTs(5), BadTs),
         RawLeg("U8", "subway", ZTs(7), ZTs(8), FALSE, 0) >>,
      \* the second leg leaves before the first has arrived
      << RawLeg("S3", "suburban", ZTs(1), ZTs(3), FALSE, 0),
         RawLeg("M41", "bus", ZTs(2), ZTs(4), FALSE, 0) >> }

RECURSIVE SeqsUpTo(_, _)
SeqsUpTo(S, n) ==
    IF n = 0 THEN {<<>>}
    ELSE SeqsUpTo(S, n - 1)
             \cup {Append(q, x) : q \in {r \in SeqsUpTo(S, n - 1) : Len(r) = n - 1}, x \in S}

\* filters maps: none, and some that switch products off or on
FilterPool ==
    { <<>>,
      [p \in {"bus"} |-> FALSE],
      [p \in {"bus", "subway"} |-> (p = "bus")],
      [p \in {"suburban", "tram"} |-> FALSE] }

BuildInit ==
    /\ AppInit
    /\ OccIdle
    /\ apiJourneys \in SeqsUpTo(RawJourneyPool, MaxBatch)
    /\ filters \in FilterPool
    /\ built = [done |-> FALSE, journeys |-> <<>>]

\* fetchJourneys returns (line 543)
BuildRun ==
    /\ ~built.done
    /\ built' = [done |-> TRUE,
                 journeys |-> fetchJourneys([err |-> FALSE, journeys |-> apiJourneys],
                                            filters).journeys]
    /\ UNCHANGED <<journeys, prevJourneyIDs, selectedIdx, isLoading, refreshPulse,
                   newHighlight, delayHistory, statusMsgFrame, animFrame,
                   showSplash, splashFrame, page, stopChanClosed, appRunning,
                   bgRunning, fetching, updates, pulseSleepers, refreshCalls,
                   takenAfterStop, apiJourneys, filters, inFlight, publishedSeq,
                   stepVars, occVars>>

BuildNext == BuildRun

BuildSpec == BuildInit /\ [][BuildNext]_vars

(***************************************************************************)
(* The loading flag on its own.  The animation ticks after the splash      *)
(* write neither isLoading, fetching nor updates and no guard of a refresh *)
(* reads what they write, so the life of the loading flag is followed      *)
(* without them.  The scheduling assumed: a fetch returns (the HTTP client *)
(* has a timeout, line 387) and the event loop runs what is queued while   *)
(* it runs.                                                                *)
(***************************************************************************)
LoadNext ==
    \/ FetchReturns
    \/ ApplyRefresh
    \/ PulseEnds
    \/ KeyUp
    \/ KeyDown
    \/ KeyRefresh
    \/ KeyQuit
    \/ AppExits
    \/ SplashTick
    \/ LeaveSplash
    \/ RefreshTick
    \/ BgStops

LiveSpec ==
    /\ Init
    /\ [][LoadNext]_vars
    /\ WF_vars(FetchReturns)
    /\ WF_vars(ApplyRefresh)
    /\ WF_vars(LeaveSplash)

(***************************************************************************)
(* The application after it has run for a while: the splash is over, the   *)
(* frame counter is past MaxFrame, the last refresh failed (the list is    *)
(* empty, the identities of the last good batch are kept) and line S3 has  *)
(* collected samples of 1, 2, 3, ... minutes over the earlier cycles.      *)
(***************************************************************************)
HistoryPool ==
    { [l \in {"S3"} |-> [i \in 1..n |-> i]] :
          n \in (DelayHistoryCap - MaxRefresh)..DelayHistoryCap }

LongRunInit ==
    /\ journeys = <<>>
    /\ prevJourneyIDs =
           NewIDs(fetchJourneys([err |-> FALSE, journeys |-> BatchA], NoFilters).journeys, {})
    /\ selectedIdx = 0
    /\ isLoading = FALSE
    /\ refreshPulse = FALSE
    /\ newHighlight = 0
    /\ delayHistory \in HistoryPool
    /\ statusMsgFrame = 0
    /\ animFrame = MaxFrame
    /\ showSplash = FALSE
    /\ splashFrame = 0
    /\ page = "main"
    /\ stopChanClosed = FALSE
    /\ appRunning = TRUE
    /\ bgRunning = TRUE
    /\ fetching = 0
    /\ updates = <<>>
    /\ pulseSleepers = 0
    /\ refreshCalls = 0
    /\ takenAfterStop = {}
    /\ inFlight = {}
    /\ publishedSeq = 0
    /\ apiJourneys = <<>>
    /\ filters = <<>>
    /\ built = [done |-> FALSE, journeys |-> <<>>]
    /\ StepIdle
    /\ OccIdle

LongRunNext ==
    \/ FetchReturns
    \/ ApplyRefresh
    \/ PulseEnds
    \/ KeyUp
    \/ KeyDown
    \/ KeyRefresh
    \/ KeyQuit
    \/ AppExits
    \/ AnimTick
    \/ RefreshTick
    \/ BgStops

LongRunSpec == LongRunInit /\ [][LongRunNext]_vars

(***************************************************************************)
(* parseOccupancy on its own.  A string is the sequence of its characters, *)
(* so that strings.ToLower and strings.Contains are computed.              *)
(***************************************************************************)
MaxRemarks == 3

UpperCase == <<"A", "B", "C", "D", "E", "F", "G", "H", "I", "J", "K", "L", "M",
               "N", "O", "P", "Q", "R", "S", "T", "U", "V", "W", "X", "Y", "Z">>

LowerCase == <<"a", "b", "c", "d", "e", "f", "g", "h", "i", "j", "k", "l", "m",
               "n", "o", "p", "q", "r", "s", "t", "u", "v", "w", "x", "y", "z">>

\* strings.ToLower
ToLower(str) ==
    [i \in 1..Len(str) |->
        IF \E k \in 1..Len(UpperCase) : UpperCase[k] = str[i]
        THEN LowerCase[CHOOSE k \in 1..Len(UpperCase) : UpperCase[k] = str[i]]
        ELSE str[i]]

\* strings.Contains
Contains(str, substr) ==
    \E i \in 0..(Len(str) - Len(substr)) : SubSeq(str, i + 1, i + Len(substr)) = substr

StrOccup == <<"o", "c", "c", "u", "p">>
StrOccupancy == <<"o", "c", "c", "u", "p", "a", "n", "c", "y">>
StrLow == <<"l", "o", "w">>
StrMedium == <<"m", "e", "d", "i", "u", "m">>
StrModerate == <<"m", "o", "d", "e", "r", "a", "t", "e">>
StrHigh == <<"h", "i", "g", "h">>

\* the remark at the head of the slice decides, or the scan goes on; high is
\* tested before low
RECURSIVE parseOccupancyHighFirst(_)
parseOccupancyHighFirst(rs) ==
    IF rs = <<>> THEN ""
    ELSE LET code == ToLower(Head(rs).Code)
             text == ToLower(Head(rs).Text)
         IN  IF Contains(code, StrOccup) \/ Contains(text, StrOccupancy)
             THEN IF Contains(text, StrHigh) THEN "high"
                  ELSE IF Contains(text, StrMedium) \/ Contains(text, StrModerate)
                       THEN "medium"
                  ELSE IF Contains(text, StrLow) THEN "low"
                  ELSE parseOccupancyHighFirst(Tail(rs))
             ELSE parseOccupancyHighFirst(Tail(rs))

\* parseOccupancy (lines 350-365): the loop over the remarks, as a recursion
\* on the rest of the slice
RECURSIVE parseOccupancy(_)
parseOccupancy(rs) ==
    IF rs = <<>> THEN ""
    ELSE LET code == ToLower(Head(rs).Code)
             text == ToLower(Head(rs).Text)
         IN  IF Contains(code, StrOccup) \/ Contains(text, StrOccupancy)
             THEN IF Contains(text, StrLow) THEN "low"
                  ELSE IF Contains(text, StrMedium) \/ Contains(text, StrModerate)
                       THEN "medium"
                  ELSE IF Contains(text, StrHigh) THEN "high"
                  ELSE parseOccupancy(Tail(rs))
             ELSE parseOccupancy(Tail(rs))

StrSpace == <<" ">>

\* remarks as the API sends them: about occupancy by their code or by their
\* text, with one keyword, several, or none, and in either case of letters
RemarkPool ==
    { \* code "occupancy", text "Low"
      [Code |-> StrOccupancy, Text |-> <<"L", "o", "w">>],
      \* code "occupancy", text "high to medium"
      [Code |-> StrOccupancy,
       Text |-> StrHigh \o StrSpace \o <<"t", "o">> \o StrSpace \o StrMedium],
      \* code "hint", text "high occupancy, low floor"
      [Code |-> <<"h", "i", "n", "t">>,
       Text |-> StrHigh \o StrSpace \o StrOccupancy \o <<",", " ">> \o StrLow
                    \o StrSpace \o <<"f", "l", "o", "o", "r">>],
      \* code "OCCUP", text "moderate"
      [Code |-> <<"O", "C", "C", "U", "P">>, Text |-> StrModerate],
      \* code "hint", text "low floor": not about occupancy
      [Code |-> <<"h", "i", "n", "t">>,
       Text |-> StrLow \o StrSpace \o <<"f", "l", "o", "o", "r">>],
      \* code "occupancy", text "full": no keyword
      [Code |-> StrOccupancy, Text |-> <<"f", "u", "l", "l">>],
      \* code "hint", text "HIGH Occupancy"
      [Code |-> <<"h", "i", "n", "t">>,
       Text |-> <<"H", "I", "G", "H">> \o StrSpace \o <<"O">> \o Tail(StrOccupancy)],
      \* code "occupancy", text ""
      [Code |-> StrOccupancy, Text |-> <<>>] }

OccInit ==
    /\ AppInit
    /\ apiJourneys = <<>>
    /\ filters = <<>>
    /\ built = [done |-> FALSE, journeys |-> <<>>]
    /\ remarks \in SeqsUpTo(RemarkPool, MaxRemarks)
    /\ occupancy = [done |-> FALSE, level |-> ""]

\* parseOccupancy returns
OccRun ==
    /\ ~occupancy.done
    /\ occupancy' = [done |-> TRUE, level |-> parseOccupancy(remarks)]
    /\ UNCHANGED <<journeys, prevJourneyIDs, selectedIdx, isLoading, refreshPulse,
                   newHighlight, delayHistory, statusMsgFrame, animFrame,
                   showSplash, splashFrame, page, stopChanClosed, appRunning,
                   bgRunning, fetching, updates, pulseSleepers, refreshCalls,
                   takenAfterStop, inFlight, publishedSeq, buildVars, stepVars,
                   remarks>>

OccNext == OccRun

OccSpec == OccInit /\ [][OccNext]_vars

(***************************************************************************)
(* The goroutines statement by statement, after the splash.  The event     *)
(* loop runs one queued function or one key handler at a time (uiPc); the  *)
(* animation loop's goroutine loads and stores a.newHighlight in two steps *)
(* (tickHeld).                                                             *)
(***************************************************************************)
At(pos) == [at |-> pos, leg |-> 0]

\* the event loop is between two events
UiIdle == uiPc.at = "idle"

\* the function of a refresh is at the head of the queue, and the event
\* loop is at the statement pos of it
ApplyAt(pos) ==
    /\ appRunning
    /\ updates # <<>>
    /\ Head(updates).kind = "refresh"
    /\ uiPc.at = pos

StepInit ==
    /\ LongRunInit
    /\ Len(delayHistory["S3"]) = DelayHistoryCap

\* lines 1225-1245: the event loop takes the queued function of a refresh
\* and runs it up to a.delayHistoryMu.Lock(); the flags go to the journeys
\* the closure holds
ApplyDetect ==
    /\ ApplyAt("idle")
    /\ LET res == Head(updates).res IN
         IF res.err
         THEN /\ journeys' = JourneysOnError(journeys)
              /\ uiPc' = At("select")
              /\ UNCHANGED <<prevJourneyIDs, newHighlight, updates>>
         ELSE /\ updates' = <<[Head(updates) EXCEPT
                                  !.res.journeys = MarkNew(res.journeys, prevJourneyIDs)]>>
                                \o Tail(updates)
              /\ prevJourneyIDs' = NewIDs(res.journeys, prevJourneyIDs)
              /\ newHighlight' = ArmHighlight(res.journeys, prevJourneyIDs, newHighlight)
              /\ uiPc' = At("lock")
              /\ UNCHANGED journeys
    /\ UNCHANGED <<selectedIdx, isLoading, refreshPulse, delayHistory,
                   statusMsgFrame, animFrame, showSplash, splashFrame, page,
                   stopChanClosed, appRunning, bgRunning, fetching,
                   pulseSleepers, refreshCalls, takenAfterStop, inFlight,
                   publishedSeq, buildVars, delayHistoryMu, tickHeld,
                   rendered, occVars>>

\* a queued function that goes on to the history without the lock
ApplyLockSkipped ==
    /\ ApplyAt("lock")
    /\ uiPc' = At("record")
    /\ UNCHANGED <<journeys, prevJourneyIDs, selectedIdx, isLoading,
                   refreshPulse, newHighlight, delayHistory, statusMsgFrame,
                   animFrame, showSplash, splashFrame, page, stopChanClosed,
                   appRunning, bgRunning, fetching, updates, pulseSleepers,
                   refreshCalls, takenAfterStop, inFlight, publishedSeq,
                   buildVars, delayHistoryMu, tickHeld, rendered, occVars>>

\* line 1248: a.delayHistoryMu.Lock()
ApplyLock ==
    /\ ApplyAt("lock")
    /\ delayHistoryMu = "free"
    /\ delayHistoryMu' = "w"
    /\ uiPc' = At("record")
    /\ UNCHANGED <<journeys, prevJourneyIDs, selectedIdx, isLoading,
                   refreshPulse, newHighlight, delayHistory, statusMsgFrame,
                   animFrame, showSplash, splashFrame, page, stopChanClosed,
                   appRunning, bgRunning, fetching, updates, pulseSleepers,
                   refreshCalls, takenAfterStop, inFlight, publishedSeq,
                   buildVars, tickHeld, rendered, occVars>>

\* lines 1249-1263: the samples of the fetched journeys
ApplyRecord ==
    /\ ApplyAt("record")
    /\ delayHistory' = RecordJourneys(delayHistory, Head(updates).res.journeys)
    /\ uiPc' = At("unlock")
    /\ UNCHANGED <<journeys, prevJourneyIDs, selectedIdx, isLoading,
                   refreshPulse, newHighlight, statusMsgFrame, animFrame,
                   showSplash, splashFrame, page, stopChanClosed, appRunning,
                   bgRunning, fetching, updates, pulseSleepers, refreshCalls,
                   takenAfterStop, inFlight, publishedSeq, buildVars,
                   delayHistoryMu, tickHeld, rendered, occVars>>

\* line 1264: a.delayHistoryMu.Unlock()
ApplyUnlock ==
    /\ ApplyAt("unlock")
    /\ delayHistoryMu' = "free"
    /\ uiPc' = At("publish")
    /\ UNCHANGED <<journeys, prevJourneyIDs, selectedIdx, isLoading,
                   refreshPulse, newHighlight, delayHistory, statusMsgFrame,
                   animFrame, showSplash, splashFrame, page, stopChanClosed,
                   appRunning, bgRunning, fetching, updates, pulseSleepers,
                   refreshCalls, takenAfterStop, inFlight, publishedSeq,
                   buildVars, tickHeld, rendered, occVars>>

\* line 1266: a.journeys = journeys
ApplyPublish ==
    /\ ApplyAt("publish")
    /\ journeys' = Head(updates).res.journeys
    /\ uiPc' = At("select")
    /\ UNCHANGED <<prevJourneyIDs, selectedIdx, isLoading, refreshPulse,
                   newHighlight, delayHistory, statusMsgFrame, animFrame,
                   showSplash, splashFrame, page, stopChanClosed, appRunning,
                   bgRunning, fetching, updates, pulseSleepers, refreshCalls,
                   takenAfterStop, inFlight, publishedSeq, buildVars,
                   delayHistoryMu, tickHeld, rendered, occVars>>

\* lines 1268-1269: a.selectedIdx = 0
ApplySelect ==
    /\ ApplyAt("select")
    /\ selectedIdx' = 0
    /\ uiPc' = At("loading")
    /\ UNCHANGED <<journeys, prevJourneyIDs, isLoading, refreshPulse,
                   newHighlight, delayHistory, statusMsgFrame, animFrame,
                   showSplash, splashFrame, page, stopChanClosed, appRunning,
                   bgRunning, fetching, updates, pulseSleepers, refreshCalls,
                   takenAfterStop, inFlight, publishedSeq, buildVars,
                   delayHistoryMu, tickHeld, rendered, occVars>>

\* lines 1270-1277: a.isLoading = false, the sleeper of the pulse is started
\* and the queued function returns
ApplyDone ==
    /\ ApplyAt("loading")
    /\ isLoading' = LoadingAfterApply(Head(updates).res.err)
    /\ pulseSleepers' = pulseSleepers + 1
    /\ publishedSeq' = Head(updates).seq
    /\ updates' = Tail(updates)
    /\ uiPc' = At("idle")
    /\ UNCHANGED <<journeys, prevJourneyIDs, selectedIdx, refreshPulse,
                   newHighlight, delayHistory, statusMsgFrame, animFrame,
                   showSplash, splashFrame, page, stopChanClosed, appRunning,
                   bgRunning, fetching, refreshCalls, takenAfterStop,
                   inFlight, buildVars, delayHistoryMu, tickHeld, rendered,
                   occVars>>

\* a painter that may run at any statement of the event loop
RenderMayRunAnywhere == appRunning

\* lines 1329-1332: the tick hands renderHeader and renderList to
\* QueueUpdateDraw, so they run on the event loop's goroutine, between two
\* events
RenderMayRun == appRunning /\ UiIdle

\* lines 1329-1332, 1050-1215: renderHeader and renderList read the list,
\* the selection and the loading flag
Render ==
    /\ RenderMayRun
    /\ rendered' = [during |-> uiPc.at, length |-> Len(journeys),
                    selectedIdx |-> selectedIdx, isLoading |-> isLoading]
    /\ UNCHANGED <<journeys, prevJourneyIDs, selectedIdx, isLoading,
                   refreshPulse, newHighlight, delayHistory, statusMsgFrame,
                   animFrame, showSplash, splashFrame, page, stopChanClosed,
                   appRunning, bgRunning, fetching, updates, pulseSleepers,
                   refreshCalls, takenAfterStop, inFlight, publishedSeq,
                   buildVars, uiPc, delayHistoryMu, tickHeld, occVars>>

\* lines 741-745 and 945-950: Enter calls showDetail, which takes the
\* selected journey
DetailBegin ==
    /\ KeysEnabled
    /\ UiIdle
    /\ Len(journeys) > 0
    /\ selectedIdx < Len(journeys)
    /\ uiPc' = [at |-> "rlock", leg |-> 1]
    /\ UNCHANGED <<journeys, prevJourneyIDs, selectedIdx, isLoading,
                   refreshPulse, newHighlight, delayHistory, statusMsgFrame,
                   animFrame, showSplash, splashFrame, page, stopChanClosed,
                   appRunning, bgRunning, fetching, updates, pulseSleepers,
                   refreshCalls, takenAfterStop, inFlight, publishedSeq,
                   buildVars, delayHistoryMu, tickHeld, rendered, occVars>>

\* line 993: a.delayHistoryMu.RLock()
DetailRLock ==
    /\ appRunning
    /\ uiPc.at = "rlock"
    /\ delayHistoryMu # "w"
    /\ delayHistoryMu' = "r"
    /\ uiPc' = [uiPc EXCEPT !.at = "read"]
    /\ UNCHANGED <<journeys, prevJourneyIDs, selectedIdx, isLoading,
                   refreshPulse, newHighlight, delayHistory, statusMsgFrame,
                   animFrame, showSplash, splashFrame, page, stopChanClosed,
                   appRunning, bgRunning, fetching, updates, pulseSleepers,
                   refreshCalls, takenAfterStop, inFlight, publishedSeq,
                   buildVars, tickHeld, rendered, occVars>>

\* lines 994-996: the samples of the leg's line are read for the sparkline
DetailRead ==
    /\ appRunning
    /\ uiPc.at = "read"
    /\ uiPc' = [uiPc EXCEPT !.at = "runlock"]
    /\ UNCHANGED <<journeys, prevJourneyIDs, selectedIdx, isLoading,
                   refreshPulse, newHighlight, delayHistory, statusMsgFrame,
                   animFrame, showSplash, splashFrame, page, stopChanClosed,
                   appRunning, bgRunning, fetching, updates, pulseSleepers,
                   refreshCalls, takenAfterStop, inFlight, publishedSeq,
                   buildVars, delayHistoryMu, tickHeld, rendered, occVars>>

\* lines 997 and 1043-1047: a.delayHistoryMu.RUnlock(); after the last leg
\* the detail page is shown
DetailRUnlock ==
    /\ appRunning
    /\ uiPc.at = "runlock"
    /\ delayHistoryMu' = "free"
    /\ IF uiPc.leg < Len(journeys[selectedIdx + 1].Legs)
       THEN /\ uiPc' = [at |-> "rlock", leg |-> uiPc.leg + 1]
            /\ UNCHANGED page
       ELSE /\ uiPc' = At("idle")
            /\ page' = "detail"
    /\ UNCHANGED <<journeys, prevJourneyIDs, selectedIdx, isLoading,
                   refreshPulse, newHighlight, delayHistory, statusMsgFrame,
                   animFrame, showSplash, splashFrame, stopChanClosed,
                   appRunning, bgRunning, fetching, updates, pulseSleepers,
                   refreshCalls, takenAfterStop, inFlight, publishedSeq,
                   buildVars, tickHeld, rendered, occVars>>

\* lines 786-800: Escape, q and b on the detail page
KeyBack ==
    /\ appRunning
    /\ ~stopChanClosed
    /\ UiIdle
    /\ page = "detail"
    /\ page' = "main"
    /\ UNCHANGED <<journeys, prevJourneyIDs, selectedIdx, isLoading,
                   refreshPulse, newHighlight, delayHistory, statusMsgFrame,
                   animFrame, showSplash, splashFrame, stopChanClosed,
                   appRunning, bgRunning, fetching, updates, pulseSleepers,
                   refreshCalls, takenAfterStop, inFlight, publishedSeq,
                   buildVars, uiPc, delayHistoryMu, tickHeld, rendered,
                   occVars>>

\* lines 774-776 and 926-943: a shows a status message for 30 frames,
\* whether the route was added or was a favorite already
KeyAddFavorite ==
    /\ KeysEnabled
    /\ UiIdle
    /\ statusMsgFrame' = StatusMsgFrames
    /\ UNCHANGED <<journeys, prevJourneyIDs, selectedIdx, isLoading,
                   refreshPulse, newHighlight, delayHistory, animFrame,
                   showSplash, splashFrame, page, stopChanClosed, appRunning,
                   bgRunning, fetching, updates, pulseSleepers, refreshCalls,
                   takenAfterStop, inFlight, publishedSeq, buildVars, uiPc,
                   delayHistoryMu, tickHeld, rendered, occVars>>

\* lines 1292-1313: case <-ticker.C after the splash, up to the load of
\* a.newHighlight
TickBegin ==
    /\ BgMayTake("tick")
    /\ ~showSplash
    /\ tickHeld = -1
    /\ animFrame' = NextFrame(animFrame)
    /\ tickHeld' = newHighlight
    /\ takenAfterStop' = BgTaken("tick")
    /\ UNCHANGED <<journeys, prevJourneyIDs, selectedIdx, isLoading,
                   refreshPulse, newHighlight, delayHistory, statusMsgFrame,
                   showSplash, splashFrame, page, stopChanClosed, appRunning,
                   bgRunning, fetching, updates, pulseSleepers, refreshCalls,
                   inFlight, publishedSeq, buildVars, uiPc, delayHistoryMu,
                   rendered, occVars>>

\* lines 1313-1332: the store of a.newHighlight, if what was loaded is
\* positive, and the rest of the tick
TickEnd ==
    /\ appRunning
    /\ bgRunning
    /\ tickHeld # -1
    /\ newHighlight' = IF tickHeld > 0 THEN tickHeld - 1 ELSE newHighlight
    /\ statusMsgFrame' = Countdown(statusMsgFrame)
    /\ journeys' = ClearIsNew(journeys, animFrame)
    /\ tickHeld' = -1
    /\ UNCHANGED <<prevJourneyIDs, selectedIdx, isLoading, refreshPulse,
                   delayHistory, animFrame, showSplash, splashFrame, page,
                   stopChanClosed, appRunning, bgRunning, fetching, updates,
                   pulseSleepers, refreshCalls, takenAfterStop, inFlight,
                   publishedSeq, buildVars, uiPc, delayHistoryMu, rendered,
                   occVars>>

StepNext ==
    \/ FetchReturns
    \/ ApplyDetect
    \/ ApplyLock
    \/ ApplyRecord
    \/ ApplyUnlock
    \/ ApplyPublish
    \/ ApplySelect
    \/ ApplyDone
    \/ PulseEnds
    \/ Render
    \/ UiIdle /\ KeyUp
    \/ UiIdle /\ KeyDown
    \/ UiIdle /\ KeyRefresh
    \/ DetailBegin
    \/ DetailRLock
    \/ DetailRead
    \/ DetailRUnlock
    \/ KeyBack
    \/ UiIdle /\ KeyQuit
    \/ AppExits
    \/ AnimTick
    \/ RefreshTick
    \/ BgStops

StepSpec == StepInit /\ [][StepNext]_vars

\* the animation loop's goroutine beside the event loop: the ticks in two
\* steps, the events of the event loop in one
TickNext ==
    \/ FetchReturns
    \/ ApplyRefresh
    \/ PulseEnds
    \/ KeyRefresh
    \/ KeyAddFavorite
    \/ TickBegin
    \/ TickEnd
    \/ tickHeld = -1 /\ RefreshTick

TickSpec == StepInit /\ [][TickNext]_vars

(***************************************************************************)
(* Properties.                                                             *)
(***************************************************************************)
\* this step is the event loop running the queued function of a refresh
RefreshApplied ==
    /\ appRunning
    /\ appRunning'
    /\ updates # <<>>
    /\ Head(updates).kind = "refresh"
    /\ updates' = Tail(updates)

FailureApplied == RefreshApplied /\ Head(updates).res.err
SuccessApplied == RefreshApplied /\ ~Head(updates).res.err

\* a refresh has been started and its completion is not applied yet
RefreshInFlight ==
    \/ fetching > 0
    \/ \E i \in 1..Len(updates) : updates[i].kind = "refresh"

IDsOf(js) == {JourneyID(js[i]) : i \in 1..Len(js)}

C2_ResultDiscardedAfterStop ==
    [][(RefreshApplied /\ Head(updates).queuedAfterStop) =>
          UNCHANGED <<journeys, prevJourneyIDs, delayHistory, selectedIdx,
                      newHighlight>>]_vars

\* C3, as the claim states it: the background task writes neither the
\* Journey list, the loading flag, the selection index nor the
\* previous-identity set; in particular an animation tick leaves every
\* published journey, its isNew flag included, as it was.  Stated over the
\* steps of the animation ticker, which no other goroutine can take.
C3_BackgroundWritesNone ==
    [][(SplashTick \/ AnimTick) =>
          UNCHANGED <<journeys, isLoading, selectedIdx, prevJourneyIDs>>]_vars

\* the order the builder promises: ascending departAt, ties by ascending
\* totalWaitDuration
SortedByDeparture(js) ==
    \A i \in 1..(Len(js) - 1) :
        \/ js[i].LeaveAt.inst < js[i + 1].LeaveAt.inst
        \/ /\ js[i].LeaveAt.inst = js[i + 1].LeaveAt.inst
           /\ js[i].TotalWait <= js[i + 1].TotalWait

\* C4: for every response and every filters map the list fetchJourneys
\* returns is sorted ascending by departAt, equal departAt by ascending
\* totalWaitDuration.
C4_BuiltSorted ==
    built.done => SortedByDeparture(built.journeys)

\* C4 witness: the builder reordered its journeys, and two of them leave at
\* the same instant with different waits.
C4_Witness ==
    /\ built.done
    /\ built.journeys # BuildAll(apiJourneys, filters)
    /\ \E i \in 1..(Len(built.journeys) - 1) :
          /\ built.journeys[i].LeaveAt.inst = built.journeys[i + 1].LeaveAt.inst
          /\ built.journeys[i].TotalWait < built.journeys[i + 1].TotalWait

\* C5, as the claim states it: while a refresh is in flight the loading flag
\* is true.
C5_LoadingWhileInFlight ==
    RefreshInFlight => isLoading

\* C6: every refresh attempt is followed by a state in which the loading
\* flag is false, as long as the event loop keeps running what is queued
\* (it stops doing so when the application exits).
C6_LoadingEventuallyCleared ==
    RefreshInFlight ~> (~isLoading \/ ~appRunning)

\* C6 witness: a refresh was applied and the loading flag is false.
C6_Witness ==
    /\ appRunning
    /\ ~stopChanClosed
    /\ refreshCalls > 0
    /\ ~RefreshInFlight
    /\ ~isLoading

\* C7: while a fetch is in flight and stopChan is open, the background loop
\* can take the next animation tick.
C7_TickEnabledWhileFetching ==
    (appRunning /\ bgRunning /\ ~stopChanClosed /\ fetching > 0)
        => ENABLED (SplashTick \/ AnimTick)

\* C7 witness: the only refresh so far is still fetching and the frame
\* counter has gone on to MaxFrame.
C7_Witness ==
    /\ appRunning
    /\ bgRunning
    /\ ~stopChanClosed
    /\ refreshCalls = 1
    /\ fetching = 1
    /\ page = "main"
    /\ animFrame = MaxFrame

\* C8, as the claim states it: after stopChan is closed the background loop
\* takes at most one further animation-tick or refresh-timer event.
C8_AtMostOneEventAfterStop ==
    Cardinality(takenAfterStop) <= 1

\* C9: when a successful refresh is applied, a journey is published with
\* isNew true exactly if its identity is not in the identity set stored
\* before.
C9_IsNewIffAbsent ==
    [][SuccessApplied =>
          LET js == Head(updates).res.journeys IN
          /\ Len(journeys') = Len(js)
          /\ \A i \in 1..Len(js) :
                journeys'[i].IsNew = (JourneyID(js[i]) \notin prevJourneyIDs)]_vars

\* C9 witness: before the flags are cleared by the animation, a published
\* list holds a journey that is new and one that is not.
C9_Witness ==
    /\ animFrame <= IsNewClearFrame
    /\ \E i \in 1..Len(journeys) : journeys[i].IsNew
    /\ \E i \in 1..Len(journeys) : ~journeys[i].IsNew

\* C10: after a successful refresh is applied the stored identity set is
\* exactly the set of the identities of that batch's journeys.
C10_IdentitySetReplaced ==
    [][SuccessApplied => prevJourneyIDs' = IDsOf(Head(updates).res.journeys)]_vars

\* C10 witness: batch A and then batch B were applied (S3's samples are 2
\* and then 3), and the stored set holds B's identities only.
C10_Witness ==
    /\ "S3" \in DOMAIN delayHistory
    /\ delayHistory["S3"] = <<2, 3>>
    /\ prevJourneyIDs = IDsOf(fetchJourneys([err |-> FALSE, journeys |-> BatchB],
                                            NoFilters).journeys)
    /\ prevJourneyIDs # IDsOf(fetchJourneys([err |-> FALSE, journeys |-> BatchA],
                                            NoFilters).journeys)

\* the same journeys, whatever their isNew flags
SameJourneys(a, b) ==
    /\ Len(a) = Len(b)
    /\ \A i \in 1..Len(a) : [a[i] EXCEPT !.IsNew = FALSE] = [b[i] EXCEPT !.IsNew = FALSE]

\* C11: when a successful refresh brings the journeys that are published
\* already (the journeys of the successful refresh before it), applying it
\* marks no journey as new and leaves the new-highlight countdown as it was.
C11_UnchangedBatchNotNew ==
    [][(SuccessApplied /\ SameJourneys(Head(updates).res.journeys, journeys)) =>
          /\ \A i \in 1..Len(journeys') : ~journeys'[i].IsNew
          /\ newHighlight' = newHighlight]_vars

\* C11 witness: batch A was applied twice (S3's samples are 2 and 2) and,
\* before the animation clears the flags, no published journey is new.
C11_Witness ==
    /\ animFrame <= IsNewClearFrame
    /\ journeys # <<>>
    /\ \A i \in 1..Len(journeys) : ~journeys[i].IsNew
    /\ "S3" \in DOMAIN delayHistory
    /\ delayHistory["S3"] = <<2, 2>>

\* the legs of a batch, journey after journey
RECURSIVE AllLegs(_)
AllLegs(js) == IF js = <<>> THEN <<>> ELSE Head(js).Legs \o AllLegs(Tail(js))

\* the samples a batch holds for a line: the whole minutes of every
\* strictly positive departure delay of that line, in the batch's order
SamplesOf(js, line) ==
    LET Late(leg) == leg.Line = line /\ leg.DepDelay > 0
        late == SelectSeq(AllLegs(js), Late)
    IN  [i \in 1..Len(late) |-> late[i].DepDelay \div 60]

\* the last n elements of s
LastN(s, n) == IF Len(s) > n THEN SubSeq(s, Len(s) - n + 1, Len(s)) ELSE s

\* the list a line held before, <<>> when it had none
HistoryOf(hist, line) == IF line \in DOMAIN hist THEN hist[line] ELSE <<>>

\* C12: after a successful refresh is applied every line holds at most 20
\* samples, and a list that would have grown beyond 20 is the last 20 of the
\* earlier samples followed by the new ones: the oldest are the ones removed.
C12_DelayHistoryCapped ==
    [][SuccessApplied =>
          \A l \in DOMAIN delayHistory' :
             LET grown == HistoryOf(delayHistory, l)
                              \o SamplesOf(Head(updates).res.journeys, l)
             IN  /\ Len(delayHistory'[l]) <= 20
                 /\ Len(grown) > 20 => delayHistory'[l] = LastN(grown, 20)]_vars

\* C12 witness: S3 holds 20 samples and its oldest sample, 1, is gone.
C12_Witness ==
    /\ "S3" \in DOMAIN delayHistory
    /\ Len(delayHistory["S3"]) = 20
    /\ delayHistory["S3"][1] # 1

\* C13: applying a successful refresh appends to each line's list, in the
\* batch's order, one sample of whole minutes for every leg of that line with
\* a strictly positive departure delay (as far as the cap of 20 allows),
\* creates the list of a line that had none, and adds nothing for a leg whose
\* delay is zero or negative.
C13_PositiveDelaysRecorded ==
    [][SuccessApplied =>
          LET js == Head(updates).res.journeys
              lines == {AllLegs(js)[i].Line : i \in 1..Len(AllLegs(js))}
          IN  /\ DOMAIN delayHistory' =
                     DOMAIN delayHistory \cup {l \in lines : SamplesOf(js, l) # <<>>}
              /\ \A l \in DOMAIN delayHistory' :
                    LET grown == HistoryOf(delayHistory, l) \o SamplesOf(js, l)
                    IN  Len(grown) <= 20 => delayHistory'[l] = grown]_vars

\* C13 witness: batch B was applied: S3, three minutes late, has the sample
\* 3; M10 (delay 0) and U8 (a minute early) have no list.
C13_Witness ==
    /\ \E i \in 1..Len(journeys) : journeys[i].Legs[1].Line = "M10"
    /\ "S3" \in DOMAIN delayHistory
    /\ delayHistory["S3"][Len(delayHistory["S3"])] = 3
    /\ "M10" \notin DOMAIN delayHistory
    /\ "U8" \notin DOMAIN delayHistory

\* a raw timestamp that is RFC 3339 text, and the instant it names
Parses(ts) == ts.k \in {"z", "off"}
InstantOf(ts) == IF ts.k = "z" THEN ts.local ELSE ts.local - ts.off

\* a raw leg the builder keeps: it has a line and both its timestamps parse
GoodLeg(al) == al.hasLine /\ Parses(al.departure) /\ Parses(al.arrival)
GoodLegs(aj) == {n \in 1..Len(aj) : GoodLeg(aj[n])}

\* the raw journeys of the response with at least one leg to keep
WithGoodLeg == {i \in 1..Len(apiJourneys) : GoodLegs(apiJourneys[i]) # {}}

\* what the builder made of raw journey i: <<>> or one Journey
BuiltFrom(i) == BuildJourney(apiJourneys[i], filters)

\* C14, as the claim states it: every Journey the builder returns has
\* departAt <= arriveAt.
C14_DepartNotAfterArrive ==
    built.done =>
        \A k \in 1..Len(built.journeys) :
            built.journeys[k].LeaveAt.inst <= built.journeys[k].ArriveAt.inst

\* C15: every Journey the builder returns has at least one leg, and the
\* builder returns no more journeys than there are raw journeys with a leg
\* to keep: a raw journey of transfers only, or whose legs all fail to
\* parse, gives none.
C15_AtLeastOneLeg ==
    built.done =>
        /\ \A k \in 1..Len(built.journeys) : Len(built.journeys[k].Legs) >= 1
        /\ Len(built.journeys) <= Cardinality(WithGoodLeg)

\* C15 witness: the response held a walk-only raw journey and a raw journey
\* whose legs with a line all fail to parse, beside one that was built.
C15_Witness ==
    /\ built.done
    /\ built.journeys # <<>>
    /\ \E i \in 1..Len(apiJourneys) :
          /\ apiJourneys[i] # <<>>
          /\ \A n \in 1..Len(apiJourneys[i]) : ~apiJourneys[i][n].hasLine
    /\ \E i \in 1..Len(apiJourneys) :
          /\ \E n \in 1..Len(apiJourneys[i]) : apiJourneys[i][n].hasLine
          /\ GoodLegs(apiJourneys[i]) = {}

\* C16, as the claim states it: departAt is the departure of the first leg
\* of the Journey's legs and arriveAt the arrival of its last leg.
C16_DepartIsFirstLeg ==
    built.done =>
        \A k \in 1..Len(built.journeys) :
            LET j == built.journeys[k] IN
            /\ j.LeaveAt.inst = j.Legs[1].Departure.inst
            /\ j.ArriveAt.inst = j.Legs[Len(j.Legs)].Arrival.inst

\* C16, amended: departAt is the departure of the first raw leg of the raw
\* journey, be it a transfer, a walk or a leg that was dropped; arriveAt is
\* the arrival of the last leg of the Journey's legs.
C16_DepartIsFirstRawLeg ==
    built.done =>
        \A k \in 1..Len(built.journeys) :
            LET j == built.journeys[k] IN
            /\ j.ArriveAt = j.Legs[Len(j.Legs)].Arrival
            /\ \E i \in 1..Len(apiJourneys) :
                  /\ BuiltFrom(i) = <<j>>
                  /\ Parses(apiJourneys[i][1].departure)
                  /\ j.LeaveAt.inst = InstantOf(apiJourneys[i][1].departure)

\* C16 witness: a Journey was built from a raw journey that starts with a
\* walk, another from one whose first leg was dropped, and each leaves
\* before its first leg does.
C16_Witness ==
    /\ built.done
    /\ \E i \in 1..Len(apiJourneys) :
          /\ BuiltFrom(i) # <<>>
          /\ ~apiJourneys[i][1].hasLine
          /\ BuiltFrom(i)[1].LeaveAt.inst < BuiltFrom(i)[1].Legs[1].Departure.inst
          /\ \E k \in 1..Len(built.journeys) : built.journeys[k] = BuiltFrom(i)[1]
    /\ \E i \in 1..Len(apiJourneys) :
          /\ BuiltFrom(i) # <<>>
          /\ apiJourneys[i][1].hasLine
          /\ ~GoodLeg(apiJourneys[i][1])
          /\ BuiltFrom(i)[1].LeaveAt.inst < BuiltFrom(i)[1].Legs[1].Departure.inst
          /\ \E k \in 1..Len(built.journeys) : built.journeys[k] = BuiltFrom(i)[1]

\* which raw legs count as the leg before: every raw leg, a transfer or walk
\* as well ("any"), or a transfer or walk and a leg that is kept ("kept")
CountsAsPrevious(al, which) ==
    IF which = "any" THEN TRUE ELSE ~al.hasLine \/ GoodLeg(al)

\* the waits of the legs kept from a raw journey, when the previous arrival
\* is that of the nearest raw leg before that counts
RECURSIVE WaitsFrom(_, _, _, _, _)
WaitsFrom(aj, n, hasPrev, prev, which) ==
    IF n > Len(aj) THEN <<>>
    ELSE LET al == aj[n]
             wait == IF hasPrev /\ InstantOf(al.departure) > prev
                     THEN InstantOf(al.departure) - prev
                     ELSE 0
             moves == CountsAsPrevious(al, which) /\ Parses(al.arrival)
             rest == WaitsFrom(aj, n + 1,
                               hasPrev \/ moves,
                               IF moves THEN InstantOf(al.arrival) ELSE prev,
                               which)
         IN  IF GoodLeg(al) THEN <<wait>> \o rest ELSE rest

BuiltWaits(j) == [n \in 1..Len(j.Legs) |-> j.Legs[n].WaitBefore]

\* C17, as the claim states it: waitBefore of a built leg is
\* max(0, departure - previousArrival), previousArrival being the arrival of
\* the nearest raw leg before it, whatever that raw leg is; 0 when nothing
\* precedes.
C17_WaitFromNearestRawLeg ==
    built.done =>
        \A i \in 1..Len(apiJourneys) :
            BuiltFrom(i) # <<>> =>
                BuiltWaits(BuiltFrom(i)[1]) = WaitsFrom(apiJourneys[i], 1, FALSE, 0, "any")

\* C17, amended: previousArrival is the arrival of the nearest raw leg
\* before it that is a kept leg or a transfer/walk whose arrival parses; a leg
\* dropped for a timestamp that does not parse is passed over, as is a
\* transfer/walk without a sound arrival.  waitBefore is never negative.
C17_WaitFromNearestKeptArrival ==
    built.done =>
        \A i \in 1..Len(apiJourneys) :
            BuiltFrom(i) # <<>> =>
                /\ BuiltWaits(BuiltFrom(i)[1]) = WaitsFrom(apiJourneys[i], 1, FALSE, 0, "kept")
                /\ \A n \in 1..Len(BuiltFrom(i)[1].Legs) : BuiltFrom(i)[1].Legs[n].WaitBefore >= 0
                /\ \E k \in 1..Len(built.journeys) : built.journeys[k] = BuiltFrom(i)[1]

\* C17 witness: the builder returned a Journey whose raw journey has a dropped
\* leg with a sound arrival before a kept leg, one with a wait counted from a
\* walk, and one whose second leg leaves before the first has arrived.
C17_Witness ==
    /\ built.done
    /\ \E i \in 1..Len(apiJourneys) :
          /\ BuiltFrom(i) # <<>>
          /\ WaitsFrom(apiJourneys[i], 1, FALSE, 0, "any")
                 # WaitsFrom(apiJourneys[i], 1, FALSE, 0, "kept")
    /\ \E i \in 1..Len(apiJourneys) :
          /\ BuiltFrom(i) # <<>>
          /\ ~apiJourneys[i][1].hasLine
          /\ BuiltFrom(i)[1].Legs[1].WaitBefore > 0
    /\ \E k \in 1..Len(built.journeys) :
          /\ Len(built.journeys[k].Legs) = 2
          /\ built.journeys[k].Legs[2].Departure.inst < built.journeys[k].Legs[1].Arrival.inst
          /\ built.journeys[k].Legs[2].WaitBefore = 0

RECURSIVE SumWaits(_)
SumWaits(legs) == IF legs = <<>> THEN 0 ELSE Head(legs).WaitBefore + SumWaits(Tail(legs))

\* C18: totalWaitDuration of every Journey the builder returns is the sum of
\* waitBefore over its legs.
C18_TotalWaitIsSum ==
    built.done =>
        \A k \in 1..Len(built.journeys) :
            built.journeys[k].TotalWait = SumWaits(built.journeys[k].Legs)

\* C18 witness: a returned Journey has two legs that each wait.
C18_Witness ==
    /\ built.done
    /\ \E k \in 1..Len(built.journeys) :
          /\ Len(built.journeys[k].Legs) = 2
          /\ built.journeys[k].Legs[1].WaitBefore > 0
          /\ built.journeys[k].Legs[2].WaitBefore > 0

\* C19, as the claim states it: a leg that fails to parse is dropped alone,
\* wherever it stands: with no filter set, every raw journey with at least
\* one sound leg with a line gives a Journey, so the builder returns as many
\* journeys as there are such raw journeys.
C19_BadLegKeepsJourney ==
    (built.done /\ DOMAIN filters = {}) =>
        Len(built.journeys) = Cardinality(WithGoodLeg)

\* a Journey no leg of which uses a product the filters map sets to false
Allowed(j) ==
    \A n \in 1..Len(j.Legs) :
        j.Legs[n].Product \in DOMAIN filters => filters[j.Legs[n].Product]

\* C20: the journeys returned under a filters map are the journeys returned
\* without one, less those with a built leg whose product the map sets to
\* false; a product the map does not name is let through, and an empty map
\* removes nothing.
C20_FilterDiscardsDisabled ==
    built.done =>
        built.journeys = SortJourneys(SelectSeq(BuildAll(apiJourneys, <<>>), Allowed))

\* C20 witness: under a map that names two products, a journey was removed,
\* and the journeys returned use a product set to true and a product the map
\* does not name.
C20_Witness ==
    /\ built.done
    /\ DOMAIN filters # {}
    /\ Len(built.journeys) < Len(BuildAll(apiJourneys, <<>>))
    /\ \E k \in 1..Len(built.journeys) :
          \E n \in 1..Len(built.journeys[k].Legs) :
              /\ built.journeys[k].Legs[n].Product \in DOMAIN filters
              /\ filters[built.journeys[k].Legs[n].Product]
    /\ \E k \in 1..Len(built.journeys) :
          \E n \in 1..Len(built.journeys[k].Legs) :
              built.journeys[k].Legs[n].Product \notin DOMAIN filters

\* the filters maps that differ from f only by switching on products that
\* f switches off
Relaxations(f) ==
    {g \in [DOMAIN f -> BOOLEAN] : \A p \in DOMAIN f : f[p] => g[p]}

\* the journeys of a list, as a set
JourneySet(js) == {js[i] : i \in 1..Len(js)}

\* C21: for the same response, every journey returned under a filters map
\* is also returned under every map that differs from it only by switching
\* on products it switched off.
C21_FilterMonotonic ==
    built.done =>
        \A g \in Relaxations(filters) :
            JourneySet(built.journeys)
                \subseteq JourneySet(fetchJourneys([err |-> FALSE, journeys |-> apiJourneys],
                                                   g).journeys)

\* C21 witness: a map that switches a product off returned some journeys, and
\* switching that product on brings back more.
C21_Witness ==
    /\ built.done
    /\ built.journeys # <<>>
    /\ \E p \in DOMAIN filters : ~filters[p]
    /\ \E g \in Relaxations(filters) :
          Len(fetchJourneys([err |-> FALSE, journeys |-> apiJourneys], g).journeys)
              > Len(built.journeys)

\* C26: after any selection keys and applied completions the selection
\* index is not negative and is 0 or less than the number of published
\* journeys.
C26_SelectionInBounds ==
    /\ selectedIdx >= 0
    /\ selectedIdx = 0 \/ selectedIdx < Len(journeys)

\* C26 witness: the selection stands on the last of several journeys.
C26_Witness ==
    /\ selectedIdx > 0
    /\ selectedIdx = Len(journeys) - 1

\* C28, as the claim states it: the refresh pulse armed by a refresh is not
\* cleared before that refresh's completion is applied, so the pulse is set
\* whenever a refresh is in flight.
C28_PulseHeldWhileInFlight ==
    (appRunning /\ RefreshInFlight) => refreshPulse

\* C27, as the claim states it: once every fetch has returned and every
\* completion has been applied, what is published is the result of the
\* refresh that was triggered last.
C27_LastTriggeredPublished ==
    (appRunning /\ refreshCalls > 0 /\ ~RefreshInFlight) => publishedSeq = refreshCalls

\* the remark is about occupancy: by its code or by its text, whatever the case
AboutOccupancy(r) ==
    Contains(ToLower(r.Code), StrOccup) \/ Contains(ToLower(r.Text), StrOccupancy)

\* the keywords of a level that the remark's text holds, whatever the case
HasLevel(r, level) ==
    LET text == ToLower(r.Text)
    IN  CASE level = "low" -> Contains(text, StrLow)
          [] level = "medium" -> Contains(text, StrMedium) \/ Contains(text, StrModerate)
          [] level = "high" -> Contains(text, StrHigh)

\* the remark decides the classification
Decides(r) ==
    AboutOccupancy(r) /\ \E level \in {"low", "medium", "high"} : HasLevel(r, level)

\* C25: the result is low, medium, high or unset; it is unset exactly when no
\* remark about occupancy holds a keyword; otherwise the first such remark in
\* the order of the slice decides, and of the keywords it holds the earliest
\* of low, medium, high is the result.
C25_FirstRemarkLowMediumHigh ==
    occupancy.done =>
        /\ occupancy.level \in {"low", "medium", "high", ""}
        /\ occupancy.level = "" <=> ~\E i \in 1..Len(remarks) : Decides(remarks[i])
        /\ \A i \in 1..Len(remarks) :
              (Decides(remarks[i]) /\ \A k \in 1..(i - 1) : ~Decides(remarks[k]))
                  => /\ HasLevel(remarks[i], "low") => occupancy.level = "low"
                     /\ (~HasLevel(remarks[i], "low") /\ HasLevel(remarks[i], "medium"))
                            => occupancy.level = "medium"
                     /\ (~HasLevel(remarks[i], "low") /\ ~HasLevel(remarks[i], "medium"))
                            => occupancy.level = "high"

\* a remark without a keyword was passed over, and the remark that decided
\* holds high and a keyword that is tested before it
C25_Witness ==
    /\ occupancy.done
    /\ Len(remarks) >= 2
    /\ AboutOccupancy(remarks[1]) /\ ~Decides(remarks[1])
    /\ Decides(remarks[2])
    /\ HasLevel(remarks[2], "high")
    /\ occupancy.level \in {"low", "medium"}

\* the event loop is inside the queued function of a refresh, between its
\* first write and its return
ApplyPositions == {"lock", "record", "unlock", "publish", "select", "loading"}

\* C22: renderHeader and renderList never run while the function of a
\* refresh is between its first write and its return, so what they read is
\* the state before the function or the state after it; in particular, while
\* that function stands between the store of the list and the clearing of
\* the loading flag, nothing is painted.
C22_RenderNeverInsideApply ==
    /\ rendered.during \notin ApplyPositions
    /\ [][uiPc.at \in ApplyPositions => rendered' = rendered]_vars

\* a new list was painted after it was published: the selection is the
\* first journey and the loading flag is clear
C22_Witness ==
    /\ rendered.during = "idle"
    /\ publishedSeq > 0
    /\ rendered.length > 0
    /\ rendered.selectedIdx = 0
    /\ ~rendered.isLoading

\* C23: a step that changes the delay history is taken with the exclusive
\* lock held before and after it, and the step of showDetail that reads the
\* history is taken with the shared lock held before and after it.
C23_HistoryUnderLock ==
    [][/\ delayHistory' # delayHistory => (delayHistoryMu = "w" /\ delayHistoryMu' = "w")
       /\ (uiPc.at = "read" /\ uiPc' # uiPc) => (delayHistoryMu = "r" /\ delayHistoryMu' = "r")]_vars

\* the history has been written by a refresh, and showDetail stands at its
\* read with the shared lock
C23_Witness ==
    /\ publishedSeq > 0
    /\ delayHistory["S3"][DelayHistoryCap] # DelayHistoryCap
    /\ uiPc.at = "read"
    /\ delayHistoryMu = "r"

\* C24, as the claim states it: the countdowns are never negative; a tick
\* takes one from each countdown that is positive and leaves a countdown of
\* zero; and when a refresh armed the highlight while the tick was running,
\* the tick leaves it at 30 or at 29.
C24_TickCountsDownKeepsArmed ==
    /\ [](newHighlight >= 0 /\ statusMsgFrame >= 0)
    /\ [][(tickHeld # -1 /\ tickHeld' = -1) =>
             /\ statusMsgFrame' = Countdown(statusMsgFrame)
             /\ newHighlight = tickHeld => newHighlight' = Countdown(newHighlight)
             /\ newHighlight # tickHeld =>
                    newHighlight' \in {NewHighlightFrames, NewHighlightFrames - 1}]_vars

====
